---- MODULE Spec2Model ----
(***************************************************************************)
(* State-synchronisation core of the video analytics dashboard:            *)
(*   App          (frontend/src/App.js, lines 9-109)                       *)
(*   SystemStats  (frontend/src/App.js, lines 115-187)                     *)
(*   Dashboard    (frontend/src/components/dashboard.js)                   *)
(*   DetectionFeed (unnamed/part_000)                                      *)
(* The React state of App is the state of the model; every effect,         *)
(* timer callback, promise continuation and WebSocket callback is one      *)
(* action; the three presentational components are operators over the     *)
(* props they receive.                                                     *)
(***************************************************************************)
EXTENDS Integers, Sequences, FiniteSets, TLC

(***************************************************************************)
(* Bounds                                                                  *)
(***************************************************************************)
\* requests of one resource that can be awaiting their response at once
MaxInFlight == 2

(***************************************************************************)
(* JavaScript values, as far as the code looks at them                     *)
(***************************************************************************)
Undefined == [t |-> "undefined"]
Null == [t |-> "null"]
Num(n) == [t |-> "num", v |-> n]
Str(s) == [t |-> "str", v |-> s]
Arr(s) == [t |-> "arr", s |-> s]
Obj(f) == [t |-> "obj", f |-> f]

\* ToBoolean, as applied by `x ? a : b`, `x && y` and `x || y`
Truthy(v) ==
  CASE v.t = "undefined" -> FALSE
    [] v.t = "null" -> FALSE
    [] v.t = "num" -> v.v # 0
    [] v.t = "str" -> v.v # ""
    [] OTHER -> TRUE

\* property read o.k on a non-null value: undefined when the key is absent
Get(o, k) ==
  IF o.t = "obj" /\ k \in DOMAIN o.f THEN o.f[k] ELSE Undefined

\* x.length
Length(v) ==
  IF v.t = "arr" THEN Num(Len(v.s)) ELSE Get(v, "length")

\* a > 0 on a JS value (undefined > 0 is false)
GreaterThanZero(v) == v.t = "num" /\ v.v > 0

(***************************************************************************)
(* Wire texts: HTTP response bodies and WebSocket frames                   *)
(***************************************************************************)
TxtStatsA == "{\"total_frames_processed\":1200,\"total_detections\":50,\"active_streams\":2,\"frame_queue_size\":3,\"results_queue_size\":1}"
TxtStatsB == "{\"total_frames_processed\":0,\"total_detections\":0,\"active_streams\":0,\"frame_queue_size\":0,\"results_queue_size\":0}"
TxtStreams1 == "[{\"id\":1,\"stream_id\":\"cam1\",\"status\":\"active\",\"frames_processed\":1200,\"total_detections\":50,\"video_source\":\"a.mp4\"}]"
\* nine detection records (ids 1..9), abbreviated
TxtDets9 == "[{\"id\":1,...},...,{\"id\":9,...}]"
TxtErrorBody == "{\"detail\":\"Internal Server Error\"}"
TxtTruncated == "{\"total_frames_processed\":"
TxtLiveQ7 == "{\"frame_queue_size\":7,\"results_queue_size\":1}"
TxtLiveQ0 == "{\"frame_queue_size\":0,\"results_queue_size\":0}"
TxtLiveDet == "{\"latest_detection\":{\"stream_id\":\"cam1\",\"frame_number\":9,\"detections\":[{\"class_name\":\"car\"}]}}"
TxtLivePing == "{\"type\":\"ping\"}"
TxtNull == "null"

StatsObj(frames, dets, active, fq, rq) ==
  Obj([total_frames_processed |-> Num(frames), total_detections |-> Num(dets),
       active_streams |-> Num(active), frame_queue_size |-> Num(fq),
       results_queue_size |-> Num(rq)])

Label(name) == Obj([class_name |-> Str(name)])

DetectionRecord(id, labels) ==
  Obj([id |-> Num(id), stream_id |-> Str("cam1"), frame_number |-> Num(4 + id),
       detections |-> Arr(labels)])

StreamRecord ==
  Obj([id |-> Num(1), stream_id |-> Str("cam1"), status |-> Str("active"),
       frames_processed |-> Num(1200), total_detections |-> Num(50),
       video_source |-> Str("a.mp4")])

\* the outcome of JSON.parse / response.json(): a value, or a thrown SyntaxError
Returns(v) == [ok |-> TRUE, value |-> v]
Throws == [ok |-> FALSE, value |-> Undefined]

JSONParse(text) ==
  CASE text = TxtStatsA -> Returns(StatsObj(1200, 50, 2, 3, 1))
    [] text = TxtStatsB -> Returns(StatsObj(0, 0, 0, 0, 0))
    [] text = TxtStreams1 -> Returns(Arr(<<StreamRecord>>))
    [] text = TxtDets9 ->
         Returns(Arr([i \in 1..9 |->
                   DetectionRecord(i, IF i = 2 THEN <<>>
                                      ELSE <<Label("car"), Label("person"), Label("car")>>)]))
    [] text = TxtErrorBody -> Returns(Obj([detail |-> Str("Internal Server Error")]))
    [] text = TxtLiveQ7 ->
         Returns(Obj([frame_queue_size |-> Num(7), results_queue_size |-> Num(1)]))
    [] text = TxtLiveQ0 ->
         Returns(Obj([frame_queue_size |-> Num(0), results_queue_size |-> Num(0)]))
    [] text = TxtLiveDet ->
         Returns(Obj([latest_detection |->
                   Obj([stream_id |-> Str("cam1"), frame_number |-> Num(9),
                        detections |-> Arr(<<Label("car")>>)])]))
    [] text = TxtLivePing -> Returns(Obj([type |-> Str("ping")]))
    [] text = TxtNull -> Returns(Null)
    [] OTHER -> Throws

(***************************************************************************)
(* The backend, seen from the browser                                      *)
(***************************************************************************)
Resources == {"stats", "streams", "detections"}

\* fetch() rejects (no response at all)
NetworkError == [net |-> FALSE, status |-> 0, body |-> ""]
HttpResponse(status, body) == [net |-> TRUE, status |-> status, body |-> body]

GoodBodies(r) ==
  CASE r = "stats" -> {TxtStatsA, TxtStatsB}
    [] r = "streams" -> {TxtStreams1}
    [] r = "detections" -> {TxtDets9}

\* what a request for resource r can come back with
Responses(r) ==
  {NetworkError}
    \cup {HttpResponse(200, b) : b \in GoodBodies(r)}
    \cup {HttpResponse(500, TxtErrorBody), HttpResponse(200, TxtTruncated)}

\* a poll that succeeded: a 2xx response carrying the resource
Succeeded(r, resp) == resp.net /\ resp.status = 200 /\ resp.body \in GoodBodies(r)

\* text frames the server can push
Frames == {TxtLiveQ7, TxtLiveQ0, TxtLiveDet, TxtLivePing, TxtNull, TxtTruncated}

(***************************************************************************)
(* State                                                                   *)
(***************************************************************************)
VARIABLES
  stats,             \* useState(null)
  streams,           \* useState([])
  recentDetections,  \* useState([])
  liveData,          \* useState(null)
  connected,         \* useState(false)
  phase,             \* "constructed", "mounted" (effects ran), "unmounted" (cleanups ran)
  interval,          \* the setInterval timer is armed
  inflight,          \* per resource, the number of requests awaiting their response
  readyState,        \* ws.readyState, "NONE" before the socket is constructed
  fired,             \* events the browser has dispatched on ws
  behind,            \* per resource, the requests still in flight that were issued
                     \* before the latest-issued request whose response was stored
                     \* (recorded by OrderSpec only, which completes by position)
  last               \* the handler that ran last, and whether it ended in an exception

appState == <<stats, streams, recentDetections, liveData, connected>>
vars == <<stats, streams, recentDetections, liveData, connected, phase, interval,
          inflight, readyState, fired, behind, last>>

Init ==
  /\ stats = Null
  /\ streams = Arr(<<>>)
  /\ recentDetections = Arr(<<>>)
  /\ liveData = Null
  /\ connected = FALSE
  /\ phase = "constructed"
  /\ interval = FALSE
  /\ inflight = [r \in Resources |-> 0]
  /\ readyState = "NONE"
  /\ fired = {}
  /\ behind = [r \in Resources |-> 0]
  /\ last = [op |-> "construct"]

(***************************************************************************)
(* Polling                                                                 *)
(***************************************************************************)
\* fetchStats(); fetchStreams(); fetchRecentDetections();  up to each one's first await
IssueAll == [r \in Resources |-> inflight[r] + 1]

\* the try block of a fetch function throws: fetch() or response.json() rejects
Caught(resp) == ~resp.net \/ ~JSONParse(resp.body).ok

\* the body of a fetch function after its awaits: the new value of the state
\* it owns, given the old one (try: parse and store; catch: log only)
FetchResult(old, resp) ==
  IF Caught(resp) THEN old ELSE JSONParse(resp.body).value

\* a mount that shows the connection as live as soon as the socket is constructed
Mount_Optimistic ==
  /\ phase = "constructed"
  /\ phase' = "mounted"
  /\ inflight' = IssueAll
  /\ interval' = TRUE
  /\ readyState' = "CONNECTING"
  /\ connected' = TRUE
  /\ last' = [op |-> "mount"]
  /\ UNCHANGED <<stats, streams, recentDetections, liveData, fired, behind>>

\* the mount of App: both effects run
Mount ==
  /\ phase = "constructed"
  /\ phase' = "mounted"
  /\ inflight' = IssueAll
  /\ interval' = TRUE
  /\ readyState' = "CONNECTING"
  /\ last' = [op |-> "mount"]
  /\ UNCHANGED <<appState, fired, behind>>

\* a callback that skips the round while a fetch of an earlier round is outstanding
Tick_Chained ==
  /\ interval
  /\ \A r \in Resources : inflight[r] = 0
  /\ inflight' = IssueAll
  /\ last' = [op |-> "tick"]
  /\ UNCHANGED <<appState, phase, interval, readyState, fired, behind>>

\* the setInterval callback
Tick ==
  /\ interval
  /\ \A r \in Resources : inflight[r] < MaxInFlight
  /\ inflight' = IssueAll
  /\ last' = [op |-> "tick"]
  /\ UNCHANGED <<appState, phase, interval, readyState, fired, behind>>

\* fetchStats after its awaits: setStats(data), or the catch block
StatsSettles(resp) ==
  /\ inflight["stats"] > 0
  /\ inflight' = [inflight EXCEPT !["stats"] = @ - 1]
  /\ stats' = FetchResult(stats, resp)
  /\ last' = [op |-> "fetchStats", caught |-> Caught(resp)]
  /\ UNCHANGED <<streams, recentDetections, liveData, connected, phase, interval,
                 readyState, fired>>

\* fetchStreams after its awaits
StreamsSettles(resp) ==
  /\ inflight["streams"] > 0
  /\ inflight' = [inflight EXCEPT !["streams"] = @ - 1]
  /\ streams' = FetchResult(streams, resp)
  /\ last' = [op |-> "fetchStreams", caught |-> Caught(resp)]
  /\ UNCHANGED <<stats, recentDetections, liveData, connected, phase, interval,
                 readyState, fired>>

\* fetchRecentDetections after its awaits
DetectionsSettles(resp) ==
  /\ inflight["detections"] > 0
  /\ inflight' = [inflight EXCEPT !["detections"] = @ - 1]
  /\ recentDetections' = FetchResult(recentDetections, resp)
  /\ last' = [op |-> "fetchRecentDetections", caught |-> Caught(resp)]
  /\ UNCHANGED <<stats, streams, liveData, connected, phase, interval,
                 readyState, fired>>

\* completing the request at position k of those in flight, oldest first: a
\* request older than one whose response was stored leaves one fewer behind;
\* any other leaves behind the k - 1 requests issued before it if its response
\* is stored, and changes nothing if it is not
Overtake(r, k, resp) ==
  [behind EXCEPT ![r] = IF k <= @ THEN @ - 1 ELSE IF Caught(resp) THEN @ ELSE k - 1]

\* the response of some request for /stats arrives, whichever it is
fetchStats(resp) == StatsSettles(resp) /\ UNCHANGED behind
fetchStreams(resp) == StreamsSettles(resp) /\ UNCHANGED behind
fetchRecentDetections(resp) == DetectionsSettles(resp) /\ UNCHANGED behind

\* the response of the k-th oldest request in flight arrives
fetchStatsAt(k, resp) ==
  /\ k \in 1..inflight["stats"]
  /\ StatsSettles(resp)
  /\ behind' = Overtake("stats", k, resp)

fetchStreamsAt(k, resp) ==
  /\ k \in 1..inflight["streams"]
  /\ StreamsSettles(resp)
  /\ behind' = Overtake("streams", k, resp)

fetchRecentDetectionsAt(k, resp) ==
  /\ k \in 1..inflight["detections"]
  /\ DetectionsSettles(resp)
  /\ behind' = Overtake("detections", k, resp)

(***************************************************************************)
(* Push connection                                                         *)
(***************************************************************************)
\* ws.onopen
onopen ==
  /\ readyState = "CONNECTING"
  /\ readyState' = "OPEN"
  /\ fired' = fired \cup {"open"}
  /\ connected' = TRUE
  /\ last' = [op |-> "onopen"]
  /\ UNCHANGED <<stats, streams, recentDetections, liveData, phase, interval,
                 inflight, behind>>

\* an onmessage that clears the live reading when the frame does not parse
onmessage_ResetsOnError(text) ==
  /\ readyState = "OPEN"
  /\ liveData' = IF JSONParse(text).ok THEN JSONParse(text).value ELSE Null
  /\ last' = [op |-> "onmessage", threw |-> ~JSONParse(text).ok]
  /\ UNCHANGED <<stats, streams, recentDetections, connected, phase, interval,
                 inflight, readyState, fired, behind>>

\* ws.onmessage: an uncaught SyntaxError from JSON.parse ends the handler
onmessage(text) ==
  /\ readyState = "OPEN"
  /\ liveData' = IF JSONParse(text).ok THEN JSONParse(text).value ELSE liveData
  /\ last' = [op |-> "onmessage", threw |-> ~JSONParse(text).ok]
  /\ UNCHANGED <<stats, streams, recentDetections, connected, phase, interval,
                 inflight, readyState, fired, behind>>

\* ws.onerror: the connection failed; the browser dispatches close next
onerror ==
  /\ readyState \in {"CONNECTING", "OPEN", "CLOSING"}
  /\ readyState' = "CLOSED"
  /\ fired' = fired \cup {"error"}
  /\ last' = [op |-> "onerror"]
  /\ UNCHANGED <<appState, phase, interval, inflight, behind>>

\* an onclose that only logs
onclose_LogsOnly ==
  /\ "close" \notin fired
  /\ \/ readyState \in {"OPEN", "CLOSING"}
     \/ readyState = "CLOSED" /\ "error" \in fired
  /\ readyState' = "CLOSED"
  /\ fired' = fired \cup {"close"}
  /\ connected' = connected
  /\ last' = [op |-> "onclose"]
  /\ UNCHANGED <<stats, streams, recentDetections, liveData, phase, interval,
                 inflight, behind>>

\* ws.onclose: after a failure, after the server closed, or after ws.close()
onclose ==
  /\ "close" \notin fired
  /\ \/ readyState \in {"OPEN", "CLOSING"}
     \/ readyState = "CLOSED" /\ "error" \in fired
  /\ readyState' = "CLOSED"
  /\ fired' = fired \cup {"close"}
  /\ connected' = FALSE
  /\ last' = [op |-> "onclose"]
  /\ UNCHANGED <<stats, streams, recentDetections, liveData, phase, interval,
                 inflight, behind>>

(***************************************************************************)
(* Teardown: the cleanups of both effects                                  *)
(***************************************************************************)
\* a teardown that forgets clearInterval
Unmount_LeaksTimer ==
  /\ phase = "mounted"
  /\ phase' = "unmounted"
  /\ interval' = interval
  /\ readyState' = IF readyState = "OPEN" THEN "CLOSING" ELSE readyState
  /\ last' = [op |-> "unmount"]
  /\ UNCHANGED <<appState, inflight, fired, behind>>

Unmount ==
  /\ phase = "mounted"
  /\ phase' = "unmounted"
  /\ interval' = FALSE
  /\ readyState' = IF readyState = "OPEN" THEN "CLOSING" ELSE readyState
  /\ last' = [op |-> "unmount"]
  /\ UNCHANGED <<appState, inflight, fired, behind>>

Next ==
  \/ Mount
  \/ Tick
  \/ \E resp \in Responses("stats") : fetchStats(resp)
  \/ \E resp \in Responses("streams") : fetchStreams(resp)
  \/ \E resp \in Responses("detections") : fetchRecentDetections(resp)
  \/ onopen
  \/ \E text \in Frames : onmessage(text)
  \/ onerror
  \/ onclose
  \/ Unmount

Spec == Init /\ [][Next]_vars

\* polling alone, with each response attributed to the request it answers
OrderNext ==
  \/ Mount
  \/ Tick
  \/ \E k \in 1..MaxInFlight, resp \in Responses("stats") : fetchStatsAt(k, resp)
  \/ \E k \in 1..MaxInFlight, resp \in Responses("streams") : fetchStreamsAt(k, resp)
  \/ \E k \in 1..MaxInFlight, resp \in Responses("detections") :
       fetchRecentDetectionsAt(k, resp)
  \/ Unmount

OrderSpec == Init /\ [][OrderNext]_vars

\* the event loop runs a due timer callback, a pending fetch settles, and the
\* browser dispatches the close event of a socket that failed or is closing;
\* unmounting is up to the user
FairSpec ==
  /\ Spec
  /\ WF_vars(Tick)
  /\ WF_vars(\E resp \in Responses("stats") : fetchStats(resp))
  /\ WF_vars(\E resp \in Responses("streams") : fetchStreams(resp))
  /\ WF_vars(\E resp \in Responses("detections") : fetchRecentDetections(resp))
  /\ WF_vars(onclose)
(***************************************************************************)
(* Presentational components: what each one shows for the props it gets    *)
(***************************************************************************)
\* default locales the runtime may have, with the ways of grouping digits that
\* its locale data holds; a way of grouping is the size of the last group, the
\* size of the groups before it, and the least number of digits that must
\* stand before the last group for any grouping to happen; a last group of
\* size 0 stands for a locale that groups no digits at all
Locales == {"en-US", "es-ES", "en-IN", "ee-GH", "tok", "en-US-u-va-posix"}

\* en-US also stands for de-DE, fr-FR, ja-JP, it-IT; es-ES for pt-PT, pl-PL;
\* en-IN for hi-IN
Grouping(locale) ==
  CASE locale = "en-US-u-va-posix" -> [primary |-> 0, secondary |-> 0, minimum |-> 0]
    [] locale = "en-US" -> [primary |-> 3, secondary |-> 3, minimum |-> 1]
    [] locale = "es-ES" -> [primary |-> 3, secondary |-> 3, minimum |-> 2]
    [] locale = "en-IN" -> [primary |-> 3, secondary |-> 2, minimum |-> 1]
    [] locale = "ee-GH" -> [primary |-> 3, secondary |-> 3, minimum |-> 3]
    [] locale = "tok" -> [primary |-> 2, secondary |-> 2, minimum |-> 1]

RECURSIVE Pow10(_)
Pow10(k) == IF k = 0 THEN 1 ELSE 10 * Pow10(k - 1)

RECURSIVE NumDigits(_)
\* the number of decimal digits of n
NumDigits(n) == IF n < 10 THEN 1 ELSE 1 + NumDigits(n \div 10)

RECURSIVE GroupsOf(_, _)
\* n cut into groups of size digits, from the right
GroupsOf(n, size) ==
  IF n < Pow10(size) THEN <<n>>
  ELSE Append(GroupsOf(n \div Pow10(size), size), n % Pow10(size))

\* the digit groups of a non-negative integer n under a locale: 1200 shows as
\* "1,200" under en-US, as "1200" under es-ES and as "12 00" under tok, 1234567
\* as "12,34,567" under en-IN, 12345 as "12345" under ee-GH (the separator, the
\* digit shapes and the zero padding of a group are left out)
Groups(n, locale) ==
  LET g == Grouping(locale)
  IN  IF g.primary = 0 \/ NumDigits(n) - g.primary < g.minimum THEN <<n>>
      ELSE Append(GroupsOf(n \div Pow10(g.primary), g.secondary), n % Pow10(g.primary))

\* x.toLocaleString() on a number: the call names no locale, so the text is
\* given for each default locale the runtime may have
toLocaleString(v) == [t |-> "text", groups |-> [locale \in Locales |-> Groups(v.v, locale)]]

\* the text of a number with one decimal, by its number of tenths: '0.0' is 0 tenths
Fixed1(tenths) == [t |-> "fixed1", tenths |-> tenths]

RECURSIVE BitLength(_)
\* the number of binary digits of n
BitLength(n) == IF n = 0 THEN 0 ELSE 1 + BitLength(n \div 2)

RECURSIVE Mantissa(_, _, _, _, _)
\* binary long division of r / b (r < b) until the quotient has `need` more
\* significant digits: what is left of the dividend, and whether the last
\* digit written is a one
Mantissa(r, b, need, started, odd) ==
  IF r = 0 \/ need = 0 THEN [rem |-> r, odd |-> odd]
  ELSE LET bit == (2 * r) \div b
           rest == (2 * r) % b
       IN  IF started \/ bit = 1
           THEN Mantissa(rest, b, need - 1, TRUE, bit = 1)
           ELSE Mantissa(rest, b, need, FALSE, FALSE)

\* a / b in double precision (53 significant binary digits, round to nearest,
\* ties to even), compared with the exact quotient: 1 above, 0 equal, -1 below
DoubleError(a, b) ==
  LET m == Mantissa(a % b, b, 53 - BitLength(a \div b), a \div b > 0, (a \div b) % 2 = 1)
  IN  IF m.rem = 0 THEN 0
      ELSE IF 2 * m.rem > b \/ (2 * m.rem = b /\ m.odd) THEN 1
      ELSE -1

\* (a / b).toFixed(1) for non-negative integers: a/0 is Infinity, 0/0 is NaN, and
\* otherwise the tenth nearest to the double a / b, the larger one when the
\* double is halfway.  The double differs from the exact quotient by too
\* little to matter (for a * b < 2^48) unless the exact quotient is halfway:
\* then the side the double fell on decides (3/20 shows as 0.1, 1/4 as 0.3).
toFixed1(a, b) ==
  IF b = 0 THEN Str(IF a = 0 THEN "NaN" ELSE "Infinity")
  ELSE LET tenths == (10 * a) \div b
           rem == (10 * a) % b
       IN  IF 2 * rem < b THEN Fixed1(tenths)
           ELSE IF 2 * rem > b THEN Fixed1(tenths + 1)
           ELSE IF DoubleError(a, b) >= 0 THEN Fixed1(tenths + 1)
           ELSE Fixed1(tenths)

\* an average that divides without looking at the denominator
AvgDetections_Unguarded(s) ==
  toFixed1(Get(s, "total_detections").v, Get(s, "total_frames_processed").v)

\* total_frames_processed > 0 ? (total_detections / total_frames_processed).toFixed(1) : '0.0'
AvgDetections(s) ==
  IF GreaterThanZero(Get(s, "total_frames_processed"))
  THEN toFixed1(Get(s, "total_detections").v, Get(s, "total_frames_processed").v)
  ELSE Fixed1(0)

\* liveData ? liveData.k : stats.k
QueueDepth(s, live, k) == IF Truthy(live) THEN Get(live, k) ELSE Get(s, k)

Dashboard(s, live) ==
  IF ~Truthy(s) THEN [shown |-> "loading"]
  ELSE IF Get(s, "total_frames_processed").t # "num" \/ Get(s, "total_detections").t # "num"
    THEN [shown |-> "TypeError"]
  ELSE [shown |-> "stats",
        totalFrames |-> toLocaleString(Get(s, "total_frames_processed")),
        totalDetections |-> toLocaleString(Get(s, "total_detections")),
        activeStreams |-> Get(s, "active_streams"),
        frameQueue |-> QueueDepth(s, live, "frame_queue_size"),
        resultsQueue |-> QueueDepth(s, live, "results_queue_size"),
        avgDetections |-> AvgDetections(s)]

\* liveData?.k
OptionalGet(live, k) == IF live.t \in {"null", "undefined"} THEN Undefined ELSE Get(live, k)

\* a || b
Or(a, b) == IF Truthy(a) THEN a ELSE b

\* (liveData?.k || stats.k) === 0 ? Healthy : Backlog
QueueLabel(s, live, k) ==
  IF Or(OptionalGet(live, k), Get(s, k)) = Num(0) THEN "Healthy" ELSE "Backlog"

StreamItem(stream) ==
  [stream_id |-> Get(stream, "stream_id"),
   status |-> Get(stream, "status"),
   frames |-> toLocaleString(Get(stream, "frames_processed")),
   detections |-> toLocaleString(Get(stream, "total_detections")),
   source |-> Get(stream, "video_source")]

SystemStats(s, strs, live) ==
  [liveIndicator |-> Truthy(live),
   \* the empty roster is the "No active streams" placeholder
   roster |-> IF Truthy(strs) /\ GreaterThanZero(Length(strs))
              THEN [i \in 1..Len(strs.s) |-> StreamItem(strs.s[i])]
              ELSE <<>>,
   queueHealth |->
     IF Truthy(s)
     THEN [shown |-> TRUE,
           frameQueue |-> QueueDepth(s, live, "frame_queue_size"),
           frameLabel |-> QueueLabel(s, live, "frame_queue_size"),
           resultsQueue |-> QueueDepth(s, live, "results_queue_size"),
           resultsLabel |-> QueueLabel(s, live, "results_queue_size")]
     ELSE [shown |-> FALSE]]

\* the names every object literal inherits from Object.prototype
ObjectPrototypeKeys ==
  {"constructor", "toString", "valueOf", "hasOwnProperty", "isPrototypeOf",
   "propertyIsEnumerable", "toLocaleString", "__proto__", "__defineGetter__",
   "__defineSetter__", "__lookupGetter__", "__lookupSetter__"}

\* counts[name] on the object literal `counts`: an own key, else what is
\* inherited (Object.prototype itself for __proto__, a method for the other
\* names), else undefined
Lookup(counts, name) ==
  IF name \in DOMAIN counts THEN counts[name]
  ELSE IF name = "__proto__" THEN [t |-> "prototype"]
  ELSE IF name \in ObjectPrototypeKeys THEN [t |-> "function", name |-> name]
  ELSE Undefined

\* (v || 0) + 1: a number is incremented, anything else truthy is turned into
\* a string and "1" is appended
OrZeroPlusOne(v) ==
  IF ~Truthy(v) THEN Num(1)
  ELSE IF v.t = "num" THEN Num(v.v + 1)
  ELSE [t |-> "concat", left |-> v, right |-> "1"]

RECURSIVE getObjectCounts(_)
\* own key -> value, over a sequence of {class_name} objects
getObjectCounts(detectionList) ==
  IF detectionList = <<>> THEN <<>>
  ELSE LET n == Len(detectionList)
           counts == getObjectCounts(SubSeq(detectionList, 1, n - 1))
           name == Get(detectionList[n], "class_name").v
       IN  \* counts.__proto__ = <a string> goes to the inherited setter, which
           \* ignores a value that is neither an object nor null: no key is made
           IF name = "__proto__" THEN counts
           ELSE [c \in DOMAIN counts \cup {name} |->
                   IF c = name THEN OrZeroPlusOne(Lookup(counts, name)) ELSE counts[c]]

DetectionItem(detection) ==
  [stream_id |-> Get(detection, "stream_id"),
   frame_number |-> Get(detection, "frame_number"),
   objects |-> getObjectCounts(Get(detection, "detections").s)]

\* detections.slice(0, 8)
Slice8(seq) == SubSeq(seq, 1, IF Len(seq) < 8 THEN Len(seq) ELSE 8)

DetectionFeed(detections, live) ==
  [live |-> IF Truthy(live) /\ Truthy(Get(live, "latest_detection"))
            THEN [shown |-> TRUE, item |-> DetectionItem(Get(live, "latest_detection"))]
            ELSE [shown |-> FALSE],
   \* the empty list is the "No detections yet" placeholder
   historical |-> IF Truthy(detections) /\ GreaterThanZero(Length(detections))
                  THEN [i \in 1..Len(Slice8(detections.s)) |->
                          DetectionItem(Slice8(detections.s)[i])]
                  ELSE <<>>]

\* rendering the tree throws: Dashboard reads .toLocaleString() of a total that
\* stats does not have, and nothing in App catches it
TreeThrows(s, live) == Dashboard(s, live).shown = "TypeError"

\* what App renders from its state: the whole tree, or nothing of it
View(s, strs, dets, live, conn) ==
  IF TreeThrows(s, live) THEN [shown |-> "TypeError"]
  ELSE [shown |-> "tree",
        indicator |-> IF conn THEN "Live" ELSE "Disconnected",
        dashboard |-> Dashboard(s, live),
        systemStats |-> SystemStats(s, strs, live),
        feed |-> DetectionFeed(dets, live)]

MergedView == View(stats, streams, recentDetections, liveData, connected)

(***************************************************************************)
(* Vocabulary of the properties                                            *)
(***************************************************************************)
QueueFields == {"frame_queue_size", "results_queue_size"}

\* the two recognized shapes of a live event
IsQueueKind(v) == \A k \in QueueFields : Get(v, k).t = "num"
IsDetectionKind(v) ==
  /\ Get(v, "latest_detection").t = "obj"
  /\ \A k \in QueueFields : Get(v, k).t = "undefined"

\* what the two components show of the queues, by wire field name
DashboardView == Dashboard(stats, liveData)
QueueHealthView == SystemStats(stats, streams, liveData).queueHealth

DashboardDepth(k) ==
  IF k = "frame_queue_size" THEN DashboardView.frameQueue ELSE DashboardView.resultsQueue
SystemStatsDepth(k) ==
  IF k = "frame_queue_size" THEN QueueHealthView.frameQueue ELSE QueueHealthView.resultsQueue

\* the tree is on the screen
TreeRenders == ~TreeThrows(stats, liveData)

DashboardShowsStats == TreeRenders /\ DashboardView.shown = "stats"
SystemStatsShowsQueues == TreeRenders /\ QueueHealthView.shown

(***************************************************************************)
(* C1: wherever the merged view shows queue depths, each depth is the      *)
(* value of the latest live event when that event carries one, and the     *)
(* value of the latest stats snapshot when no live event carries one.      *)
(***************************************************************************)
LatestDepth(k) == IF IsQueueKind(liveData) THEN Get(liveData, k) ELSE Get(stats, k)

C1_LatestValueShown ==
  \A k \in QueueFields :
    /\ DashboardShowsStats => DashboardDepth(k) = LatestDepth(k)
    /\ SystemStatsShowsQueues => SystemStatsDepth(k) = LatestDepth(k)

(***************************************************************************)
(* C2: the depths are taken from the live reading only when it is of the   *)
(* queue-depth kind; while the live reading is of the detection kind the   *)
(* shown depths are those of the stats snapshot.                           *)
(***************************************************************************)
C2_DetectionKindFallsBack ==
  \A k \in QueueFields :
    /\ (DashboardShowsStats /\ DashboardDepth(k) # Get(stats, k)) => IsQueueKind(liveData)
    /\ (SystemStatsShowsQueues /\ SystemStatsDepth(k) # Get(stats, k)) => IsQueueKind(liveData)
    /\ (DashboardShowsStats /\ IsDetectionKind(liveData)) => DashboardDepth(k) = Get(stats, k)
    /\ (SystemStatsShowsQueues /\ IsDetectionKind(liveData)) =>
         SystemStatsDepth(k) = Get(stats, k)

(***************************************************************************)
(* C3: a poll that fails (network error, non-success status, malformed     *)
(* payload) leaves stats, streams and recentDetections as they were.       *)
(***************************************************************************)
C3_FailedPollChangesNothing ==
  [][ /\ \A resp \in Responses("stats") :
           (fetchStats(resp) /\ ~Succeeded("stats", resp)) => stats' = stats
      /\ \A resp \in Responses("streams") :
           (fetchStreams(resp) /\ ~Succeeded("streams", resp)) => streams' = streams
      /\ \A resp \in Responses("detections") :
           (fetchRecentDetections(resp) /\ ~Succeeded("detections", resp)) =>
             recentDetections' = recentDetections ]_vars

(***************************************************************************)
(* C4: once the cleanups have run, no response still in flight changes     *)
(* stats, streams or recentDetections.                                     *)
(***************************************************************************)
C4_LateResponsesDiscarded ==
  [][phase = "unmounted" => UNCHANGED <<stats, streams, recentDetections>>]_vars

(***************************************************************************)
(* C5: while App stays mounted, a close or an error of the push connection *)
(* is eventually followed by a new connection attempt.                     *)
(***************************************************************************)
C5_ReconnectsAfterLoss ==
  (phase = "mounted" /\ readyState = "CLOSED")
    ~> (phase = "unmounted" \/ readyState = "CONNECTING")

(***************************************************************************)
(* C6: after the WebSocket effect's cleanup the socket is never open and   *)
(* connected is never set to true.                                         *)
(***************************************************************************)
C6_TeardownClosesSocket ==
  [][phase = "unmounted" => (readyState' # "OPEN" /\ (connected' => connected))]_vars

(***************************************************************************)
(* C7: after the poll effect's cleanup no fetch is issued: the number of   *)
(* outstanding requests of a resource never grows again.                   *)
(***************************************************************************)
C7_NoFetchAfterStop ==
  [][phase = "unmounted" => \A r \in Resources : inflight'[r] <= inflight[r]]_vars

\* the poller was stopped, handlers ran afterwards, and an armed timer could fire
C7_Witness ==
  /\ phase = "unmounted"
  /\ last.op \notin {"unmount", "mount", "tick"}
  /\ \A r \in Resources : inflight[r] < MaxInFlight

(***************************************************************************)
(* C8: a frame that is valid JSON of neither recognized shape leaves the   *)
(* live reading and the merged view as they were.                          *)
(***************************************************************************)
Unrecognized(text) ==
  /\ JSONParse(text).ok
  /\ ~IsQueueKind(JSONParse(text).value)
  /\ ~IsDetectionKind(JSONParse(text).value)

C8_UnrecognizedFrameIgnored ==
  [][\A text \in Frames :
       (onmessage(text) /\ Unrecognized(text)) =>
         (liveData' = liveData /\ MergedView' = MergedView)]_vars

(***************************************************************************)
(* C9: a live event of either kind leaves the totals, the stream roster    *)
(* and the detection history of the merged view as they were, and these    *)
(* always are those of the latest poll that succeeded: they change only    *)
(* when a poll succeeds, to what that poll returned.                       *)
(***************************************************************************)
Totals(d) ==
  IF d.shown = "stats"
  THEN [shown |-> d.shown, totalFrames |-> d.totalFrames,
        totalDetections |-> d.totalDetections, activeStreams |-> d.activeStreams]
  ELSE [shown |-> d.shown]

SnapshotFields(v) ==
  IF v.shown = "tree"
  THEN [shown |-> v.shown, totals |-> Totals(v.dashboard),
        roster |-> v.systemStats.roster, historical |-> v.feed.historical]
  ELSE [shown |-> v.shown]

C9_LiveLeavesSnapshotFields ==
  [][ /\ \A text \in Frames :
           (onmessage(text) /\ JSONParse(text).ok /\ ~Unrecognized(text)) =>
             SnapshotFields(MergedView)' = SnapshotFields(MergedView)
      /\ SnapshotFields(MergedView)' # SnapshotFields(MergedView) =>
           \/ \E resp \in Responses("stats") :
                Succeeded("stats", resp) /\ fetchStats(resp)
           \/ \E resp \in Responses("streams") :
                Succeeded("streams", resp) /\ fetchStreams(resp)
           \/ \E resp \in Responses("detections") :
                Succeeded("detections", resp) /\ fetchRecentDetections(resp) ]_vars

(***************************************************************************)
(* C10 as stated: after onclose or onerror has run, connected is false.    *)
(***************************************************************************)
C10_CloseOrErrorDisconnects ==
  [][(onclose \/ onerror) => connected' = FALSE]_vars

(***************************************************************************)
(* C10, amended: after onclose has run, connected is false; onerror leaves *)
(* connected as it was.                                                    *)
(***************************************************************************)
C10_CloseDisconnects ==
  [][ /\ onclose => connected' = FALSE
      /\ onerror => connected' = connected ]_vars

\* the socket was open, failed, and its close event has been handled
C10_Witness ==
  last.op = "onclose" /\ {"open", "error"} \subseteq fired

(***************************************************************************)
(* C11: a disconnect of the push channel (the close event of a socket that *)
(* had opened, with or without an error event before it) changes           *)
(* connected from true to false exactly once, at the close event, and a    *)
(* successful connect changes it from false to true exactly once, at the   *)
(* open event; and while App stays mounted a disconnect is followed by a   *)
(* reconnect that makes connected true again.                              *)
(***************************************************************************)
OpenEvent == "open" \notin fired /\ "open" \in fired'
CloseEvent == "close" \notin fired /\ "close" \in fired'

\* the channel had opened and its close event has been handled
Disconnected == "open" \in fired /\ "close" \in fired

C11_DisconnectThenReconnect ==
  /\ [][ /\ (connected /\ ~connected') => CloseEvent
         /\ (CloseEvent /\ "open" \in fired) => (connected /\ ~connected')
         /\ (~connected /\ connected') => OpenEvent
         /\ OpenEvent => (~connected /\ connected') ]_vars
  /\ (phase = "mounted" /\ Disconnected) ~> (phase = "unmounted" \/ connected)

(***************************************************************************)
(* C12: connected is true only if the open event has fired and no close    *)
(* event has fired since; constructing the socket and receiving a message  *)
(* do not set it.                                                          *)
(***************************************************************************)
C12_ConnectedOnlyAfterOpen ==
  /\ [](connected => ("open" \in fired /\ "close" \notin fired))
  /\ [][(Mount \/ \E text \in Frames : onmessage(text)) => connected' = connected]_vars

\* a message was handled on the open socket
C12_Witness == connected /\ last.op = "onmessage" /\ liveData # Null

(***************************************************************************)
(* C13: a frame that is not JSON leaves connected and liveData as they     *)
(* were and leaves the socket open, and the next well-formed frame is      *)
(* decoded and stored.                                                     *)
(***************************************************************************)
C13_UndecodableFrameDropped ==
  [][ /\ \A text \in Frames :
           (onmessage(text) /\ ~JSONParse(text).ok) =>
             /\ connected' = connected
             /\ liveData' = liveData
             /\ readyState' = "OPEN"
      /\ \A text \in Frames :
           (last.op = "onmessage" /\ last.threw /\ onmessage(text) /\ JSONParse(text).ok) =>
             liveData' = JSONParse(text).value ]_vars

\* an undecodable frame arrived while a live reading was held, and it is still held
C13_Witness ==
  last.op = "onmessage" /\ last.threw /\ IsQueueKind(liveData) /\ connected

(***************************************************************************)
(* C14: while the live reading is a detection, the feed shows it *)
(* as the live item and the historical list is the stored detection        *)
(* history, record for record.                                             *)
(***************************************************************************)
FeedView == DetectionFeed(recentDetections, liveData)

\* the stored detection history, one item per record
HistoryItems ==
  IF recentDetections.t = "arr"
  THEN [i \in 1..Len(recentDetections.s) |-> DetectionItem(recentDetections.s[i])]
  ELSE <<>>

LiveItemShown ==
  /\ TreeRenders
  /\ FeedView.live.shown
  /\ FeedView.live.item = DetectionItem(Get(liveData, "latest_detection"))

C14_HistoryIsWholePoll ==
  IsDetectionKind(liveData) => (LiveItemShown /\ FeedView.historical = HistoryItems)

(***************************************************************************)
(* C15: while the timer is armed a tick can fire whatever the outcome of   *)
(* earlier fetches and however many are outstanding (up to MaxInFlight),   *)
(* it issues one fetch of each resource, and a fetch that returns a        *)
(* parsable body stores it whatever happened to the other fetches.         *)
(***************************************************************************)
C15_TicksAndFetchesIndependent ==
  /\ []((interval /\ \A r \in Resources : inflight[r] < MaxInFlight) => ENABLED Tick)
  /\ []((inflight["stats"] > 0) => ENABLED fetchStats(HttpResponse(200, TxtStatsA)))
  /\ []((inflight["streams"] > 0) => ENABLED fetchStreams(HttpResponse(200, TxtStreams1)))
  /\ []((inflight["detections"] > 0) =>
          ENABLED fetchRecentDetections(HttpResponse(200, TxtDets9)))
  /\ [][ /\ Tick => \A r \in Resources : inflight'[r] = inflight[r] + 1
         /\ \A resp \in Responses("stats") :
              (fetchStats(resp) /\ ~Caught(resp)) => stats' = JSONParse(resp.body).value
         /\ \A resp \in Responses("streams") :
              (fetchStreams(resp) /\ ~Caught(resp)) => streams' = JSONParse(resp.body).value
         /\ \A resp \in Responses("detections") :
              (fetchRecentDetections(resp) /\ ~Caught(resp)) =>
                recentDetections' = JSONParse(resp.body).value ]_vars

\* two rounds were issued while the detections fetch of the first was still
\* outstanding, both stats fetches failed, and the streams fetch stored its result
C15_Witness ==
  /\ last.op = "fetchStreams" /\ ~last.caught
  /\ streams = JSONParse(TxtStreams1).value
  /\ stats = Null /\ inflight["stats"] = 0
  /\ inflight["detections"] = 2

(***************************************************************************)
(* Rendering as a step: App returns its JSX for the state it is in.  The   *)
(* two specifications below start from a state a poll or a live frame has *)
(* produced, with the payload drawn from a bounded set, and render it.     *)
(***************************************************************************)
MaxCount == 20
MaxLabels == 4

CountLabels == {"car", "person", "constructor", "__proto__"}

\* sequences of at most MaxLabels labels
LabelLists == UNION {[1..n -> CountLabels] : n \in 0..MaxLabels}

\* the return statement of App
Render ==
  /\ last.op # "render"
  /\ last' = [op |-> "render", view |-> MergedView]
  /\ UNCHANGED <<stats, streams, recentDetections, liveData, connected, phase,
                 interval, inflight, readyState, fired, behind>>

\* after the first poll of /stats came back with some totals
AvgInit ==
  /\ \E f \in 0..MaxCount, d \in 0..MaxCount : stats = StatsObj(f, d, 1, 0, 0)
  /\ streams = Arr(<<>>)
  /\ recentDetections = Arr(<<>>)
  /\ liveData = Null
  /\ connected = FALSE
  /\ phase = "mounted"
  /\ interval = TRUE
  /\ inflight = [r \in Resources |-> IF r = "stats" THEN 0 ELSE 1]
  /\ readyState = "CONNECTING"
  /\ fired = {}
  /\ behind = [r \in Resources |-> 0]
  /\ last = [op |-> "fetchStats", caught |-> FALSE]

AvgSpec == AvgInit /\ [][Render]_vars

\* after the first live frame carried a detection with some labels
CountInit ==
  /\ stats = Null
  /\ streams = Arr(<<>>)
  /\ recentDetections = Arr(<<>>)
  /\ \E labels \in LabelLists :
       liveData = Obj([latest_detection |->
                    Obj([stream_id |-> Str("cam1"), frame_number |-> Num(9),
                         detections |-> Arr([i \in 1..Len(labels) |-> Label(labels[i])])])])
  /\ connected = TRUE
  /\ phase = "mounted"
  /\ interval = TRUE
  /\ inflight = [r \in Resources |-> 1]
  /\ readyState = "OPEN"
  /\ fired = {"open"}
  /\ behind = [r \in Resources |-> 0]
  /\ last = [op |-> "onmessage", threw |-> FALSE]

CountSpec == CountInit /\ [][Render]_vars

\* C16: the average shown is the zero value '0.0' when no frame was processed,
\* and otherwise the quotient total_detections / total_frames_processed, shown
\* to the nearest tenth; it is never the text of NaN or Infinity
C16_AverageGuardsZeroFrames ==
  last.op = "render" =>
    LET f == Get(stats, "total_frames_processed").v
        d == Get(stats, "total_detections").v
        avg == last.view.dashboard.avgDetections
    IN  /\ avg.t = "fixed1"
        /\ f = 0 => avg = Fixed1(0)
        /\ f > 0 => /\ 2 * (10 * d - avg.tenths * f) <= f
                    /\ 2 * (avg.tenths * f - 10 * d) <= f

\* 3 detections in 20 frames are rendered: 0.15 is halfway between two tenths
C16_Witness ==
  /\ last.op = "render"
  /\ Get(stats, "total_frames_processed") = Num(20)
  /\ Get(stats, "total_detections") = Num(3)
  /\ last.view.dashboard.avgDetections = Fixed1(1)

\* C17: the label counts of a detection list map exactly the labels present,
\* each to its number of occurrences (so the counts sum to the length of the
\* list, and the empty list gives the empty mapping)
C17_CountsMatchOccurrences ==
  last.op = "render" =>
    LET dets == Get(Get(liveData, "latest_detection"), "detections").s
        counts == last.view.feed.live.item.objects
    IN  /\ DOMAIN counts = {Get(dets[i], "class_name").v : i \in 1..Len(dets)}
        /\ \A name \in DOMAIN counts :
             counts[name] =
               Num(Cardinality({i \in 1..Len(dets) : Get(dets[i], "class_name").v = name}))

\* C19: wherever SystemStats shows the queue health, the label of each queue is
\* 'Healthy' exactly when the depth displayed next to it is 0, and 'Backlog'
\* otherwise
C19_LabelAgreesWithDepth ==
  SystemStatsShowsQueues =>
    /\ QueueHealthView.frameLabel \in {"Healthy", "Backlog"}
    /\ QueueHealthView.resultsLabel \in {"Healthy", "Backlog"}
    /\ QueueHealthView.frameLabel = "Healthy" <=> QueueHealthView.frameQueue = Num(0)
    /\ QueueHealthView.resultsLabel = "Healthy" <=> QueueHealthView.resultsQueue = Num(0)

\* the state a poll of resource r is stored in
Stored(r) ==
  CASE r = "stats" -> stats
    [] r = "streams" -> streams
    [] r = "detections" -> recentDetections

\* the response that arrives answers a request issued before one whose response
\* was stored
LateResponse(r) == behind'[r] < behind[r]

\* C18: for each polled resource, once the response to a later-issued request
\* has been stored, the response to an earlier-issued request that arrives
\* afterwards does not replace the stored value
C18_LateResponseDoesNotReplace ==
  [][\A r \in Resources : LateResponse(r) => Stored(r)' = Stored(r)]_vars
====
